---- MODULE Spec2Model ----
(***************************************************************************)
(* AI Image Expander with Google Drive integration.                        *)
(*                                                                         *)
(* Three components are modelled, each with its own specifications:        *)
(*   SpecAuth    GoogleDriveAuthService (services/googleDriveAuth): the     *)
(*               singleton that caches one OAuth access token and asks the  *)
(*               Google Identity Services token client for a new one.       *)
(*   SpecNav     GoogleDriveBrowser (components/GoogleDriveBrowser.tsx):    *)
(*               the React component that lists Drive folders and keeps the *)
(*               breadcrumb.                                                *)
(*   SpecSelect  the same component with handleFileClick called on every    *)
(*               displayed entry.                                           *)
(*   SpecRetry   the same component with the history of its error panel.    *)
(*   SpecApp     App (App.tsx): the upload / describe / expand workflow.    *)
(*   SpecSizing  the canvas sizing rule of handleGenerateClick.             *)
(*   SpecCompose the sizing, contain fit and centring of handleGenerateClick*)
(*               in the double arithmetic of JavaScript.                    *)
(* JavaScript is single threaded: every action below is one macrotask (an  *)
(* API call or a UI event up to its first pending await, or the            *)
(* continuation that runs when a pending promise settles).                 *)
(***************************************************************************)
EXTENDS Integers, Sequences, FiniteSets, Bags, TLC

\* ------------------------------------------------------------------ bounds
\* getAccessToken() calls made in one run.
MaxCalls == 2
\* initTokenClient() calls made in one run.
MaxClients == 2
\* Successful token responses in one run.
MaxIssue == 2
\* Date.now() runs from 0 to MaxNow milliseconds, in steps of TickMs.
MaxNow == 2000
TickMs == 500
\* Largest expires_in (seconds) a token response carries.
MaxExpiresIn == 2
\* Asynchronous flows of the Drive browser (authentications and listings) that
\* are pending at one time, and the longest breadcrumb.
MaxInFlight == 3
MaxDepth == 3
\* Promises the App is awaiting at one time.
MaxAwaited == 2
\* How far below MAX_DIMENSION the sizing rule is tried.
DimensionRange == 24

\* response.expires_in is in seconds, Date.now() in milliseconds.
MsPerSecond == 1000
\* const MAX_DIMENSION = 1024
MAX_DIMENSION == 1024
\* A JavaScript Number is an IEEE 754 double: Significand binary digits.
Significand == 53
\* The arithmetic on doubles is done on digits of LimbBits binary digits, FracLimbs
\* of them below the unit.
LimbBits == 16
FracLimbs == 4

\* null / undefined; an optional value is <<>> or <<v>>.
Null == <<>>
Some(v) == <<v>>

VARIABLES
    \* --- GoogleDriveAuthService and its environment
    CLIENT_ID,      \* process.env.GOOGLE_CLIENT_ID || '' (readonly field)
    googleLoaded,   \* the Google Identity Services script has defined google.accounts
    clients,        \* the TokenClient objects initTokenClient has returned; clients[k] is
                    \* the value of the k-th object's callback property
    tokenClient,    \* index in clients of this.tokenClient, 0 for null
    accessToken,    \* Null or Some(token)
    tokenExpiry,    \* Null or Some(milliseconds)
    now,            \* Date.now()
    calls,          \* the promises getAccessToken() has returned, in call order
    initOutcome,    \* how the last initialize() call settled: Null before any call
    \* --- history of the run
    issueLog,       \* the successful token responses delivered so far
    signedOut,      \* signOut() was called and getAccessToken() not yet since
    \* --- GoogleDriveBrowser: its prop, its useState cells, its pending promises
    isOpen,           \* the isOpen prop
    files,            \* useState<DriveFile[]>([])
    currentFolderId,  \* useState<string>('root')
    breadcrumb,       \* useState<BreadcrumbItem[]>([{id: 'root', name: 'My Drive'}])
    loading,          \* useState(false)
    error,            \* useState<string | null>(null)
    uiAuthenticated,  \* useState(false), the component's isAuthenticated cell
    pending,          \* bag of the promises the component is awaiting
    selected,         \* the last file handed to onSelectFile, Null when none
    filesFrom,        \* history: which caller of loadFiles wrote files last
    clicked,          \* history: the entry SelectEntry last called handleFileClick with
    retry,            \* history: "failed" once the listing of the current, non-root
                      \* folder was rejected, "retried" once Retry Authentication
                      \* was pressed on that error, "none" otherwise
    \* --- App: its useState cells and its pending promises
    originalFile,          \* useState<File | null>(null)
    originalImagePreview,  \* useState<string | null>(null)
    generatedPrompt,       \* useState<string>('')
    aspectRatio,           \* useState<AspectRatio>(ASPECT_RATIOS[0])
    generatedImage,        \* useState<string | null>(null)
    appState,              \* useState<AppState>('idle')
    errorMessage,          \* useState<string>('')
    awaited,               \* bag of the promises describeOriginalImage and
                           \* handleGenerateClick are awaiting
    \* --- the compositing steps of handleGenerateClick
    maxDimension,     \* MAX_DIMENSION
    canvas,           \* Null, or the canvas element's width and height
    img,              \* Null, or the loaded image's width and height
    drawn             \* Null, or the arguments of ctx.drawImage

authVars == <<CLIENT_ID, googleLoaded, clients, tokenClient, accessToken, tokenExpiry,
              now, calls, initOutcome, issueLog, signedOut>>

navVars == <<isOpen, files, currentFolderId, breadcrumb, loading, error,
             uiAuthenticated, pending, selected, filesFrom>>

appVars == <<originalFile, originalImagePreview, generatedPrompt, aspectRatio,
             generatedImage, appState, errorMessage, awaited>>

geomVars == <<maxDimension, canvas, img, drawn>>

vars == <<authVars, navVars, clicked, retry, appVars, geomVars>>

\* What the steps of one component leave alone.
outsideAuth == <<navVars, clicked, retry, appVars, geomVars>>
outsideNav == <<authVars, clicked, retry, appVars, geomVars>>
outsideRetry == <<authVars, clicked, appVars, geomVars>>
outsideApp == <<authVars, navVars, clicked, retry, geomVars>>

\* ------------------------------------------------- GoogleDriveAuthService

\* JavaScript truthiness of an optional number or token ('' and 0 are falsy;
\* tokens are numbered from 1, so a cached token is always truthy).
Truthy(opt) == opt # Null /\ opt[1] # 0

ExpiresInValues == 1..MaxExpiresIn
ErrorCodes == {"access_denied", "invalid_client"}

ErrNoClientId == "Google Client ID is not configured"
ErrNotLoaded == "Google Identity Services not loaded"
ErrNoTokenClient == "Token client not initialized"

\* The callback initialize() hands to initTokenClient, and the one
\* requestAccessToken installs for the promise of call c.
InitCallback == [kind |-> "initialize", call |-> 0]
RequestCallback(c) == [kind |-> "request", call |-> c]

\* Date.now() + response.expires_in * 1000
ExpiryOf(t, expires_in) == t + expires_in * MsPerSecond

\* isAuthenticated() with the expiry instant itself still counted as valid.
isAuthenticated_inclusive ==
    /\ Truthy(accessToken)
    /\ Truthy(tokenExpiry)
    /\ now <= tokenExpiry[1]

\* isAuthenticated(): !!(accessToken && tokenExpiry && Date.now() < tokenExpiry)
isAuthenticated ==
    /\ Truthy(accessToken)
    /\ Truthy(tokenExpiry)
    /\ now < tokenExpiry[1]

\* getAccessToken() returning whatever token is cached, expired or not.
CachedTokenValid_ignoresExpiry ==
    /\ Truthy(accessToken)
    /\ Truthy(tokenExpiry)

\* The test getAccessToken() makes before it returns the cached token.
CachedTokenValid ==
    /\ Truthy(accessToken)
    /\ Truthy(tokenExpiry)
    /\ now < tokenExpiry[1]

\* initialize() testing for Google Identity Services before the client id.
InitError_googleFirst ==
    IF ~googleLoaded THEN Some(ErrNotLoaded)
    ELSE IF CLIENT_ID = "" THEN Some(ErrNoClientId)
    ELSE Null

\* The error initialize() rejects with, Null when it resolves.  The client id is
\* tested first.
InitError ==
    IF CLIENT_ID = "" THEN Some(ErrNoClientId)
    ELSE IF ~googleLoaded THEN Some(ErrNotLoaded)
    ELSE Null

\* initialize(): on success this.tokenClient becomes a new TokenClient whose
\* callback is the one given to initTokenClient; the token is not touched.
Initialize ==
    /\ Len(clients) < MaxClients
    /\ IF InitError # Null
         THEN /\ initOutcome' = InitError
              /\ UNCHANGED <<clients, tokenClient>>
         ELSE /\ clients' = Append(clients, InitCallback)
              /\ tokenClient' = Len(clients) + 1
              /\ initOutcome' = Some("resolved")
    /\ UNCHANGED <<CLIENT_ID, googleLoaded, accessToken, tokenExpiry, now, calls,
                   issueLog, signedOut>>

\* A promise of getAccessToken().  req is the index of the TokenClient on which
\* this call's consent request is outstanding, 0 when none is.  seen (the number
\* of tokens issued before the call), cached (served from the cache) and uninit
\* (made with no token client) record the circumstances of the call.
NewCall(st, token, err, req, cached) ==
    [st |-> st, token |-> token, error |-> err, req |-> req,
     seen |-> Len(issueLog), cached |-> cached,
     uninit |-> (tokenClient = 0)]

\* requestAccessToken() without the initialize() of its first lines: with no
\* token client the promise is rejected.
requestAccessToken_noInitialize(c) ==
    /\ UNCHANGED <<tokenClient, initOutcome>>
    /\ IF tokenClient = 0
         THEN /\ clients' = clients
              /\ calls' = Append(calls, NewCall("rejected", Null,
                                                Some(ErrNoTokenClient), 0, FALSE))
         ELSE /\ clients' = [clients EXCEPT ![tokenClient] = RequestCallback(c)]
              /\ calls' = Append(calls, NewCall("waiting", Null, Null, tokenClient, FALSE))

\* requestAccessToken() for the promise of call c: initialize() first when there
\* is no token client, then install this request's callback on the token client
\* and ask it for a token.
requestAccessToken(c) ==
    IF tokenClient = 0 /\ InitError # Null
      THEN /\ calls' = Append(calls, NewCall("rejected", Null, InitError, 0, FALSE))
           /\ initOutcome' = InitError
           /\ UNCHANGED <<clients, tokenClient>>
      ELSE LET made == IF tokenClient = 0 THEN Append(clients, InitCallback) ELSE clients
               tc == IF tokenClient = 0 THEN Len(made) ELSE tokenClient
           IN  /\ initOutcome' = IF tokenClient = 0 THEN Some("resolved") ELSE initOutcome
               /\ tokenClient' = tc
               /\ IF tc = 0
                    THEN /\ clients' = made
                         /\ calls' = Append(calls, NewCall("rejected", Null,
                                                           Some(ErrNoTokenClient), 0, FALSE))
                    ELSE /\ clients' = [made EXCEPT ![tc] = RequestCallback(c)]
                         /\ calls' = Append(calls, NewCall("waiting", Null, Null, tc, FALSE))

\* getAccessToken(): the cached token while it is valid, requestAccessToken()
\* otherwise.
GetAccessToken ==
    /\ Len(calls) < MaxCalls
    /\ IF CachedTokenValid
         THEN /\ calls' = Append(calls, NewCall("resolved", accessToken, Null, 0, TRUE))
              /\ UNCHANGED <<clients, tokenClient, initOutcome>>
         ELSE requestAccessToken(Len(calls) + 1)
    /\ signedOut' = FALSE
    /\ UNCHANGED <<CLIENT_ID, googleLoaded, accessToken, tokenExpiry, now, issueLog>>

\* resolve / reject of the promise of call c: a settled promise stays as it is.
Resolve(cs, c, token) ==
    IF cs[c].st = "waiting" THEN [cs EXCEPT ![c].st = "resolved", ![c].token = token] ELSE cs
Reject(cs, c, err) ==
    IF cs[c].st = "waiting" THEN [cs EXCEPT ![c].st = "rejected", ![c].error = err] ELSE cs

\* The token client calls its callback property with a token response.  cs is
\* calls with the answered request taken off.  The callback of initialize()
\* stores the token (its reject is that of initialize()'s settled promise); the
\* callback of a request stores the token and settles that request's promise.
Callback(cb, cs, access_token, expires_in, err) ==
    IF err # Null
      THEN /\ calls' = IF cb.kind = "request" THEN Reject(cs, cb.call, err) ELSE cs
           /\ UNCHANGED <<accessToken, tokenExpiry, issueLog>>
      ELSE /\ accessToken' = Some(access_token)
           /\ tokenExpiry' = Some(ExpiryOf(now, expires_in))
           /\ calls' = IF cb.kind = "request"
                          THEN Resolve(cs, cb.call, Some(access_token)) ELSE cs
           /\ issueLog' = Append(issueLog, [access_token |-> access_token,
                                            expires_in |-> expires_in, at |-> now])

\* The consent screen opened for call c is answered: the TokenClient the request
\* was made on calls the callback its callback property holds at that moment.
ConsentGranted(c, expires_in) ==
    /\ calls[c].req # 0
    /\ Len(issueLog) < MaxIssue
    /\ Callback(clients[calls[c].req], [calls EXCEPT ![c].req = 0],
                Len(issueLog) + 1, expires_in, Null)
    /\ UNCHANGED <<CLIENT_ID, googleLoaded, clients, tokenClient, now, initOutcome,
                   signedOut>>

ConsentRefused(c, code) ==
    /\ calls[c].req # 0
    /\ Callback(clients[calls[c].req], [calls EXCEPT ![c].req = 0], 0, 0, Some(code))
    /\ UNCHANGED <<CLIENT_ID, googleLoaded, clients, tokenClient, now, initOutcome,
                   signedOut>>

\* signOut() clearing the token and leaving its expiry.
SignOut_keepsExpiry ==
    /\ accessToken' = Null
    /\ signedOut' = TRUE
    /\ UNCHANGED <<CLIENT_ID, googleLoaded, clients, tokenClient, tokenExpiry, now,
                   calls, initOutcome, issueLog>>

\* signOut()
SignOut ==
    /\ accessToken' = Null
    /\ tokenExpiry' = Null
    /\ signedOut' = TRUE
    /\ UNCHANGED <<CLIENT_ID, googleLoaded, clients, tokenClient, now, calls,
                   initOutcome, issueLog>>

\* Time passes.
Tick ==
    /\ now + TickMs <= MaxNow
    /\ now' = now + TickMs
    /\ UNCHANGED <<CLIENT_ID, googleLoaded, clients, tokenClient, accessToken,
                   tokenExpiry, calls, initOutcome, issueLog, signedOut>>

\* The Google Identity Services script finishes loading.
GoogleLoads ==
    /\ ~googleLoaded
    /\ googleLoaded' = TRUE
    /\ UNCHANGED <<CLIENT_ID, clients, tokenClient, accessToken, tokenExpiry, now,
                   calls, initOutcome, issueLog, signedOut>>

InitAuth ==
    /\ CLIENT_ID \in {"", "client-id.apps.googleusercontent.com"}
    /\ googleLoaded \in BOOLEAN
    /\ clients = <<>>
    /\ tokenClient = 0
    /\ accessToken = Null
    /\ tokenExpiry = Null
    /\ now = 0
    /\ calls = <<>>
    /\ initOutcome = Null
    /\ issueLog = <<>>
    /\ signedOut = FALSE

\* ----------------------------------------------------- GoogleDriveBrowser

\* mimeType as <<type, subtype>>: 'image/png' is <<"image", "png">>.
FOLDER_MIME_TYPE == <<"application", "vnd.google-apps.folder">>

DriveFile(id, name, mimeType) == [id |-> id, name |-> name, mimeType |-> mimeType]

FolderA == DriveFile("fA", "Photos", FOLDER_MIME_TYPE)
FolderB == DriveFile("fB", "2024", FOLDER_MIME_TYPE)
Image1 == DriveFile("i1", "cat.png", <<"image", "png">>)
Doc1 == DriveFile("d1", "notes.pdf", <<"application", "pdf">>)
Doc2 == DriveFile("d2", "list.txt", <<"text", "plain">>)

FolderIds == {"root", "fA", "fB"}

\* What googleDriveService.listFiles(folderId) resolves with: the user's Drive,
\* folders first.
Listing(folderId) ==
    CASE folderId = "root" -> <<FolderA, Image1, Doc1>>
      [] folderId = "fA" -> <<FolderB>>
      [] folderId = "fB" -> <<Doc2>>
      [] OTHER -> <<>>

\* googleDriveService.isFolder / isImageFile
isFolder(file) == file.mimeType = FOLDER_MIME_TYPE
isImageFile(file) == file.mimeType[1] = "image"

\* The messages a rejected listFiles() and a rejected handleAuthentication carry.
ListErrors == {"Failed to fetch files: Forbidden", "access_denied"}
AuthErrors == {"access_denied"}

RootCrumb == [id |-> "root", name |-> "My Drive"]

\* The promises the component awaits: getAccessToken() of handleAuthentication,
\* and listFiles(folder) of a loadFiles called by handleAuthentication ("auth"),
\* by the effect ("effect") or by a navigation handler ("click").
AuthFlow == [kind |-> "auth", folder |-> "root", by |-> "auth"]
ListFlow(folderId, by) == [kind |-> "list", folder |-> folderId, by |-> by]
Callers == {"auth", "effect", "click"}

One(flow) == SetToBag({flow})
InFlight == BagCardinality(pending)

\* handleAuthentication up to its await of getAccessToken()
handleAuthentication(others) ==
    /\ loading' = TRUE
    /\ error' = Null
    /\ pending' = others (+) One(AuthFlow)

\* loadFiles(folderId) up to its await of listFiles(folderId)
loadFiles(others, folderId, by) ==
    /\ loading' = TRUE
    /\ error' = Null
    /\ pending' = others (+) One(ListFlow(folderId, by))

\* The isOpen prop turns true; the effect on [isOpen, isAuthenticated] runs.
OpenBrowser ==
    /\ ~isOpen
    /\ InFlight < MaxInFlight
    /\ isOpen' = TRUE
    /\ IF ~uiAuthenticated
         THEN handleAuthentication(pending)
         ELSE loadFiles(pending, currentFolderId, "effect")
    /\ UNCHANGED <<files, currentFolderId, breadcrumb, uiAuthenticated, selected, filesFrom>>

\* The isOpen prop turns false; the effect runs and takes neither branch.
CloseBrowser ==
    /\ isOpen
    /\ isOpen' = FALSE
    /\ UNCHANGED <<files, currentFolderId, breadcrumb, loading, error, uiAuthenticated,
                   pending, selected, filesFrom>>

\* The Retry Authentication button, rendered while error is set.
RetryAuthentication ==
    /\ isOpen
    /\ error # Null
    /\ InFlight < MaxInFlight
    /\ handleAuthentication(pending)
    /\ UNCHANGED <<isOpen, files, currentFolderId, breadcrumb, uiAuthenticated, selected,
                   filesFrom>>

\* handleAuthentication after getAccessToken() resolved: setIsAuthenticated(true)
\* and loadFiles('root'); the render that follows runs the effect when
\* isAuthenticated has changed, which calls loadFiles(currentFolderId).
AuthResolved ==
    /\ BagIn(AuthFlow, pending)
    /\ InFlight < MaxInFlight
    /\ uiAuthenticated' = TRUE
    /\ loading' = TRUE
    /\ error' = Null
    /\ pending' = ((pending (-) One(AuthFlow)) (+) One(ListFlow("root", "auth")))
                    (+) (IF isOpen /\ ~uiAuthenticated
                           THEN One(ListFlow(currentFolderId, "effect")) ELSE EmptyBag)
    /\ UNCHANGED <<isOpen, files, currentFolderId, breadcrumb, selected, filesFrom>>

\* handleAuthentication after initialize() or getAccessToken() rejected: the
\* catch and the finally; the effect runs when isAuthenticated has changed and
\* calls handleAuthentication again.
AuthRejected(message) ==
    /\ BagIn(AuthFlow, pending)
    /\ uiAuthenticated' = FALSE
    /\ IF isOpen /\ uiAuthenticated
         THEN handleAuthentication(pending (-) One(AuthFlow))
         ELSE /\ error' = Some(message)
              /\ loading' = FALSE
              /\ pending' = pending (-) One(AuthFlow)
    /\ UNCHANGED <<isOpen, files, currentFolderId, breadcrumb, selected, filesFrom>>

\* loadFiles after listFiles() resolved: setFiles, then the finally.
ListResolved(folderId, by) ==
    /\ BagIn(ListFlow(folderId, by), pending)
    /\ files' = Listing(folderId)
    /\ filesFrom' = by
    /\ loading' = FALSE
    /\ pending' = pending (-) One(ListFlow(folderId, by))
    /\ UNCHANGED <<isOpen, currentFolderId, breadcrumb, error, uiAuthenticated, selected>>

\* loadFiles after listFiles() rejected: the catch, then the finally.
ListRejected(folderId, by, message) ==
    /\ BagIn(ListFlow(folderId, by), pending)
    /\ error' = Some(message)
    /\ loading' = FALSE
    /\ pending' = pending (-) One(ListFlow(folderId, by))
    /\ UNCHANGED <<isOpen, files, currentFolderId, breadcrumb, uiAuthenticated, selected,
                   filesFrom>>

\* handleFolderClick without its setCurrentFolderId.
handleFolderClick_keepsFolderId(folder) ==
    /\ currentFolderId' = currentFolderId
    /\ breadcrumb' = Append(breadcrumb, [id |-> folder.id, name |-> folder.name])
    /\ loadFiles(pending, folder.id, "click")
    /\ UNCHANGED <<isOpen, files, uiAuthenticated, selected, filesFrom>>

\* handleFolderClick(folder)
handleFolderClick(folder) ==
    /\ currentFolderId' = folder.id
    /\ breadcrumb' = Append(breadcrumb, [id |-> folder.id, name |-> folder.name])
    /\ loadFiles(pending, folder.id, "click")
    /\ UNCHANGED <<isOpen, files, uiAuthenticated, selected, filesFrom>>

\* handleBreadcrumbClick taking its target from the breadcrumb before the slice.
handleBreadcrumbClick_oldTarget(index) ==
    LET newBreadcrumb == SubSeq(breadcrumb, 1, index + 1)
        targetFolder == breadcrumb[Len(breadcrumb)]
    IN  /\ breadcrumb' = newBreadcrumb
        /\ currentFolderId' = targetFolder.id
        /\ loadFiles(pending, targetFolder.id, "click")
        /\ UNCHANGED <<isOpen, files, uiAuthenticated, selected, filesFrom>>

\* handleBreadcrumbClick(index): breadcrumb.slice(0, index + 1)
handleBreadcrumbClick(index) ==
    LET newBreadcrumb == SubSeq(breadcrumb, 1, index + 1)
        targetFolder == newBreadcrumb[Len(newBreadcrumb)]
    IN  /\ breadcrumb' = newBreadcrumb
        /\ currentFolderId' = targetFolder.id
        /\ loadFiles(pending, targetFolder.id, "click")
        /\ UNCHANGED <<isOpen, files, uiAuthenticated, selected, filesFrom>>

\* handleFileClick handing every entry that is not a folder to onSelectFile.
handleFileClick_selectsAnyFile(file) ==
    IF isFolder(file) THEN handleFolderClick(file)
    ELSE /\ selected' = Some(file)
         /\ UNCHANGED <<isOpen, files, currentFolderId, breadcrumb, loading, error,
                        uiAuthenticated, pending, filesFrom>>

\* handleFileClick(file)
handleFileClick(file) ==
    IF isFolder(file) THEN handleFolderClick(file)
    ELSE IF isImageFile(file)
      THEN /\ selected' = Some(file)
           /\ UNCHANGED <<isOpen, files, currentFolderId, breadcrumb, loading, error,
                          uiAuthenticated, pending, filesFrom>>
      ELSE UNCHANGED navVars

\* The file list is rendered while !loading && !error; the button of a file that
\* is neither a folder nor an image is disabled.
ClickFile(i) ==
    /\ isOpen
    /\ ~loading
    /\ error = Null
    /\ i \in 1..Len(files)
    /\ isFolder(files[i]) \/ isImageFile(files[i])
    /\ isFolder(files[i]) => (Len(breadcrumb) < MaxDepth /\ InFlight < MaxInFlight)
    /\ handleFileClick(files[i])

\* handleFileClick called with any entry of the displayed list, the entries whose
\* button is disabled included.
SelectEntry(i) ==
    /\ isOpen
    /\ ~loading
    /\ error = Null
    /\ i \in 1..Len(files)
    /\ isFolder(files[i]) => (Len(breadcrumb) < MaxDepth /\ InFlight < MaxInFlight)
    /\ handleFileClick(files[i])
    /\ clicked' = Some(files[i])

\* The breadcrumb buttons are rendered whenever the browser is open.
ClickBreadcrumb(index) ==
    /\ isOpen
    /\ index \in 0..(Len(breadcrumb) - 1)
    /\ InFlight < MaxInFlight
    /\ handleBreadcrumbClick(index)

InitNav ==
    /\ clicked = Null
    /\ retry = "none"
    /\ isOpen = FALSE
    /\ files = <<>>
    /\ currentFolderId = "root"
    /\ breadcrumb = <<RootCrumb>>
    /\ loading = FALSE
    /\ error = Null
    /\ uiAuthenticated = FALSE
    /\ pending = EmptyBag
    /\ selected = Null
    /\ filesFrom = "none"

\* ---------------------------------------------------------------- App

\* ASPECT_RATIOS; a value such as '16:9' is the sequence of its characters.
ASPECT_RATIOS ==
    << [label |-> "Square (1:1)", value |-> <<"1", ":", "1">>],
       [label |-> "Landscape (16:9)", value |-> <<"1", "6", ":", "9">>],
       [label |-> "Portrait (9:16)", value |-> <<"9", ":", "1", "6">>],
       [label |-> "Standard (4:3)", value |-> <<"4", ":", "3">>],
       [label |-> "Classic Portrait (3:4)", value |-> <<"3", ":", "4">>] >>

AppStates == {"idle", "describing", "ready", "generating", "done", "error"}

\* The files the user uploads, and what describeImage() answers for each.
UserFiles == {"cat.png", "harbour.jpg"}
DescriptionOf(image) ==
    IF image = "cat.png" THEN "A tabby cat asleep on a sofa."
                         ELSE "A harbour at dusk, in oil."
\* What the user types into the description textarea.
TypedPrompts == {"", "A dog."}

ErrDescribe == "Could not generate a description for the image. Please try another one."
ErrRequired == "A prompt and an original image are required."
ErrExpand ==
    "Failed to expand the image. The model might not support this type of edit. Please try again."

\* A promise the App awaits, with what the awaiting closure has captured:
\*   "read"      fileToGenerativePart(originalFile)   in describeOriginalImage
\*   "describe"  describeImage(imagePart, promptText) in describeOriginalImage
\*   "load"      img.onload / img.onerror             in handleGenerateClick
\*   "expand"    expandImage(imageBase64, prompt)     in handleGenerateClick
AiFlow(kind, image, prompt) == [kind |-> kind, image |-> image, prompt |-> prompt]
AiKinds == {"read", "describe", "load", "expand"}
PromptValues == {DescriptionOf(u) : u \in UserFiles} \cup TypedPrompts
AiFlows == {AiFlow(k, u, t) : k \in AiKinds, u \in UserFiles, t \in PromptValues}

Awaiting == BagCardinality(awaited)

\* The generative-AI calls (describeImage, expandImage) among them.
AiCallsInFlight ==
    LET aiCalls == {w \in BagToSet(awaited) : w.kind \in {"describe", "expand"}}
    IN  BagCardinality([w \in aiCalls |-> awaited[w]])

\* handleReset: the Start Over buttons (error panel; header when not idle).
handleReset ==
    /\ appState # "idle"
    /\ originalFile' = Null
    /\ originalImagePreview' = Null
    /\ generatedPrompt' = ""
    /\ aspectRatio' = ASPECT_RATIOS[1]
    /\ generatedImage' = Null
    /\ errorMessage' = ""
    /\ appState' = "idle"
    /\ UNCHANGED awaited

\* handleFileChange with a chosen file (the file input is rendered in 'idle');
\* the render that follows runs the effect on [appState, describeOriginalImage],
\* which calls describeOriginalImage up to its await of fileToGenerativePart.
handleFileChange(image) ==
    /\ appState = "idle"
    /\ Awaiting < MaxAwaited
    /\ originalFile' = Some(image)
    /\ originalImagePreview' = Some(image)
    /\ appState' = "describing"
    /\ awaited' = awaited (+) One(AiFlow("read", image, ""))
    /\ UNCHANGED <<generatedPrompt, aspectRatio, generatedImage, errorMessage>>

\* describeOriginalImage after fileToGenerativePart resolved: describeImage is
\* called and awaited.
FileRead(image) ==
    /\ BagIn(AiFlow("read", image, ""), awaited)
    /\ awaited' = (awaited (-) One(AiFlow("read", image, "")))
                     (+) One(AiFlow("describe", image, ""))
    /\ UNCHANGED <<originalFile, originalImagePreview, generatedPrompt, aspectRatio,
                   generatedImage, appState, errorMessage>>

\* describeOriginalImage after describeImage resolved.
DescribeResolved(image) ==
    /\ BagIn(AiFlow("describe", image, ""), awaited)
    /\ awaited' = awaited (-) One(AiFlow("describe", image, ""))
    /\ generatedPrompt' = DescriptionOf(image)
    /\ appState' = "ready"
    /\ UNCHANGED <<originalFile, originalImagePreview, aspectRatio, generatedImage,
                   errorMessage>>

\* describeOriginalImage after describeImage rejected: the catch.
DescribeRejected(image) ==
    /\ BagIn(AiFlow("describe", image, ""), awaited)
    /\ awaited' = awaited (-) One(AiFlow("describe", image, ""))
    /\ errorMessage' = ErrDescribe
    /\ appState' = "error"
    /\ UNCHANGED <<originalFile, originalImagePreview, generatedPrompt, aspectRatio,
                   generatedImage>>

\* The controls of the default view are rendered in every state but 'idle' and
\* 'error'.
DefaultView == appState \notin {"idle", "error"}

\* The description textarea, disabled while describing.
EditPrompt(text) ==
    /\ DefaultView
    /\ appState # "describing"
    /\ generatedPrompt' = text
    /\ UNCHANGED <<originalFile, originalImagePreview, aspectRatio, generatedImage,
                   appState, errorMessage, awaited>>

\* The aspect ratio select.
SelectAspectRatio(ar) ==
    /\ DefaultView
    /\ aspectRatio' = ar
    /\ UNCHANGED <<originalFile, originalImagePreview, generatedPrompt, generatedImage,
                   appState, errorMessage, awaited>>

\* handleGenerateClick up to its await of the image load; hasContext tells
\* whether canvas.getContext('2d') returned a context.
handleGenerateClick(hasContext) ==
    /\ IF generatedPrompt = "" \/ originalImagePreview = Null
         THEN /\ errorMessage' = ErrRequired
              /\ appState' = "error"
              /\ UNCHANGED <<generatedImage, awaited>>
         ELSE IF ~hasContext
         THEN /\ generatedImage' = Null
              /\ errorMessage' = ErrExpand
              /\ appState' = "error"
              /\ UNCHANGED awaited
         ELSE /\ appState' = "generating"
              /\ generatedImage' = Null
              /\ awaited' = awaited (+)
                     One(AiFlow("load", originalImagePreview[1], generatedPrompt))
              /\ UNCHANGED errorMessage
    /\ UNCHANGED <<originalFile, originalImagePreview, generatedPrompt, aspectRatio>>

\* The Expand Image button, disabled while describing or generating and while
\* the prompt is empty.
ClickExpand(hasContext) ==
    /\ DefaultView
    /\ appState \notin {"describing", "generating"}
    /\ generatedPrompt # ""
    /\ Awaiting < MaxAwaited
    /\ handleGenerateClick(hasContext)

\* handleGenerateClick after the image loaded: the image is drawn on the canvas
\* and expandImage is called and awaited.
ImageLoaded(flow) ==
    /\ flow.kind = "load"
    /\ BagIn(flow, awaited)
    /\ awaited' = (awaited (-) One(flow)) (+) One(AiFlow("expand", flow.image, flow.prompt))
    /\ UNCHANGED <<originalFile, originalImagePreview, generatedPrompt, aspectRatio,
                   generatedImage, appState, errorMessage>>

\* handleGenerateClick after expandImage resolved.
ExpandResolved(flow) ==
    /\ flow.kind = "expand"
    /\ BagIn(flow, awaited)
    /\ awaited' = awaited (-) One(flow)
    /\ generatedImage' = Some(flow.image)
    /\ appState' = "done"
    /\ UNCHANGED <<originalFile, originalImagePreview, generatedPrompt, aspectRatio,
                   errorMessage>>

\* handleGenerateClick after the image failed to load or expandImage rejected:
\* the catch.
GenerateFailed(flow) ==
    /\ flow.kind \in {"load", "expand"}
    /\ BagIn(flow, awaited)
    /\ awaited' = awaited (-) One(flow)
    /\ errorMessage' = ErrExpand
    /\ appState' = "error"
    /\ UNCHANGED <<originalFile, originalImagePreview, generatedPrompt, aspectRatio,
                   generatedImage>>

InitApp ==
    /\ originalFile = Null
    /\ originalImagePreview = Null
    /\ generatedPrompt = ""
    /\ aspectRatio = ASPECT_RATIOS[1]
    /\ generatedImage = Null
    /\ appState = "idle"
    /\ errorMessage = ""
    /\ awaited = EmptyBag

\* ------------------------------------- the compositing of handleGenerateClick

\* Number(s) for a string s of decimal digits.
DigitValue(ch) ==
    CASE ch = "0" -> 0 [] ch = "1" -> 1 [] ch = "2" -> 2 [] ch = "3" -> 3 [] ch = "4" -> 4
      [] ch = "5" -> 5 [] ch = "6" -> 6 [] ch = "7" -> 7 [] ch = "8" -> 8 [] ch = "9" -> 9

RECURSIVE Number(_)
Number(chars) ==
    IF chars = <<>> THEN 0
    ELSE 10 * Number(SubSeq(chars, 1, Len(chars) - 1)) + DigitValue(chars[Len(chars)])

\* s.split(sep)
RECURSIVE split(_, _)
split(chars, sep) ==
    IF \A i \in 1..Len(chars) : chars[i] # sep THEN <<chars>>
    ELSE LET first == CHOOSE i \in 1..Len(chars) :
                          chars[i] = sep /\ \A j \in 1..(i - 1) : chars[j] # sep
         IN  <<SubSeq(chars, 1, first - 1)>> \o split(SubSeq(chars, first + 1, Len(chars)), sep)

\* const [targetW, targetH] = aspectRatio.value.split(':').map(Number)
Target(ar) == LET parts == split(ar.value, ":") IN <<Number(parts[1]), Number(parts[2])>>

\* Math.round(n / d) for integers n >= 0 and d > 0: the nearest integer, a half
\* rounded up.
MathRound(n, d) == (2 * n + d) \div (2 * d)

\* The sizing of the canvas with Math.floor in the place of Math.round.
canvasSize_truncating(targetW, targetH, M) ==
    IF targetW >= targetH
      THEN [width |-> M, height |-> (M * targetH) \div targetW]
      ELSE [width |-> (M * targetW) \div targetH, height |-> M]

\* The sizing of the canvas: canvas.width and canvas.height for the target
\* ratio targetW : targetH and the largest dimension M.
canvasSize(targetW, targetH, M) ==
    IF targetW >= targetH
      THEN [width |-> M, height |-> MathRound(M * targetH, targetW)]
      ELSE [width |-> MathRound(M * targetW, targetH), height |-> M]

\* --- JavaScript Numbers.  The Numbers of the fit are IEEE 754 doubles between
\* 2^-10 and 2^11 in magnitude; such a double is a multiple of 2^-64 and is held
\* as the digits of that multiple in base 2^LimbBits, lowest digit first, with
\* no leading zero digit (zero is <<>>).  The unit is digit FracLimbs + 1.
Base == 2 ^ LimbBits

RECURSIVE DigitsOf(_)
DigitsOf(n) == IF n = 0 THEN <<>> ELSE <<n % Base>> \o DigitsOf(n \div Base)

Zeros(k) == [i \in 1..k |-> 0]

\* The double of the integer n.
FromInt(n) == IF n = 0 THEN <<>> ELSE Zeros(FracLimbs) \o DigitsOf(n)

Digit(b, i) == IF i \in 1..Len(b) THEN b[i] ELSE 0

RECURSIVE Trim(_)
Trim(b) == IF b = <<>> \/ b[Len(b)] # 0 THEN b ELSE Trim(SubSeq(b, 1, Len(b) - 1))

\* a < b
Less(a, b) ==
    IF Len(a) # Len(b) THEN Len(a) < Len(b)
    ELSE \E i \in 1..Len(a) : a[i] < b[i] /\ \A j \in (i + 1)..Len(a) : a[j] = b[j]

\* a + b, exactly
RECURSIVE AddFrom(_, _, _, _)
AddFrom(a, b, i, carry) ==
    IF i > Len(a) /\ i > Len(b) THEN DigitsOf(carry)
    ELSE LET t == Digit(a, i) + Digit(b, i) + carry
         IN  <<t % Base>> \o AddFrom(a, b, i + 1, t \div Base)
Add(a, b) == AddFrom(a, b, 1, 0)

\* a - b for a >= b, exactly
RECURSIVE SubFrom(_, _, _, _)
SubFrom(a, b, i, borrow) ==
    IF i > Len(a) THEN <<>>
    ELSE LET t == Digit(a, i) - Digit(b, i) - borrow
         IN  <<(t + Base) % Base>> \o SubFrom(a, b, i + 1, IF t < 0 THEN 1 ELSE 0)
Sub(a, b) == Trim(SubFrom(a, b, 1, 0))

\* n * b for an integer n >= 0, exactly
RECURSIVE TimesFrom(_, _, _, _)
TimesFrom(n, b, i, carry) ==
    IF i > Len(b) THEN DigitsOf(carry)
    ELSE LET t == n * b[i] + carry
         IN  <<t % Base>> \o TimesFrom(n, b, i + 1, t \div Base)
Times(n, b) == IF n = 0 THEN <<>> ELSE TimesFrom(n, b, 1, 0)

\* Long division of the digits num by the integer d > 0, from digit i down: the
\* digits of the quotient and the remainder.
RECURSIVE DivFrom(_, _, _, _)
DivFrom(num, d, i, r) ==
    IF i = 0 THEN [q |-> <<>>, r |-> r]
    ELSE LET t == r * Base + num[i]
             rest == DivFrom(num, d, i - 1, t % d)
         IN  [q |-> rest.q \o <<t \div d>>, r |-> rest.r]

\* The number of binary digits of b # <<>>, and its binary digit i (1 the lowest).
BitLength(b) ==
    LimbBits * (Len(b) - 1)
        + (CHOOSE k \in 1..LimbBits : 2 ^ (k - 1) <= b[Len(b)] /\ b[Len(b)] < 2 ^ k)
BitAt(b, i) == (b[((i - 1) \div LimbBits) + 1] \div (2 ^ ((i - 1) % LimbBits))) % 2

\* b with its k lowest binary digits cleared, and 2^k.
ClearBelow(b, k) ==
    [j \in 1..Len(b) |->
        IF j <= k \div LimbBits THEN 0
        ELSE IF j = (k \div LimbBits) + 1 THEN b[j] - (b[j] % (2 ^ (k % LimbBits)))
        ELSE b[j]]
PowerOfTwo(k) == Zeros(k \div LimbBits) \o <<2 ^ (k % LimbBits)>>

\* Rounding to nearest, ties to even, on Significand binary digits: b holds the
\* digits of the exact value down to 2^-64, inexact tells that the exact value
\* has further digits below.
RoundToDouble(b, inexact) ==
    IF b = <<>> \/ BitLength(b) <= Significand THEN b
    ELSE LET k == BitLength(b) - Significand
             below == inexact \/ \E i \in 1..(k - 1) : BitAt(b, i) = 1
             up == BitAt(b, k) = 1 /\ (below \/ BitAt(b, k + 1) = 1)
         IN  IF up THEN Add(ClearBelow(b, k), PowerOfTwo(k)) ELSE ClearBelow(b, k)

\* n / d for integers n >= 0 and d > 0
Divide(n, d) ==
    LET num == FromInt(n)
        res == DivFrom(num, d, Len(num), 0)
    IN  RoundToDouble(Trim(res.q), res.r # 0)

\* n * x for an integer n >= 0 and a double x >= 0
Multiply(n, x) == RoundToDouble(Times(n, x), FALSE)

\* Math.min(x, y)
MathMin(x, y) == IF Less(y, x) THEN y ELSE x

\* A double with its sign.
Signed(neg, mag) == [neg |-> neg /\ mag # <<>>, mag |-> mag]

\* n - x for an integer n >= 0 and a double x >= 0
Subtract(n, x) ==
    LET m == FromInt(n)
    IN  IF Less(m, x) THEN Signed(TRUE, RoundToDouble(Sub(x, m), FALSE))
                      ELSE Signed(FALSE, RoundToDouble(Sub(m, x), FALSE))

\* s / 2 (exact: no double of the fit is small enough to lose its last digit)
Halve(s) == Signed(s.neg, Trim(DivFrom(s.mag, 2, Len(s.mag), 0).q))

\* The fit and the centring with Math.max in the place of Math.min.
drawImageArgs_cover(cv, im) ==
    LET hRatio == Divide(cv.width, im.width)
        vRatio == Divide(cv.height, im.height)
        ratio == IF Less(hRatio, vRatio) THEN vRatio ELSE hRatio
        scaledWidth == Multiply(im.width, ratio)
        scaledHeight == Multiply(im.height, ratio)
    IN  [ratio |-> ratio,
         x |-> Halve(Subtract(cv.width, scaledWidth)),
         y |-> Halve(Subtract(cv.height, scaledHeight)),
         width |-> scaledWidth,
         height |-> scaledHeight]

\* The fit and the centring: the ratio and the arguments x, y, scaledWidth,
\* scaledHeight of ctx.drawImage for the canvas cv and the loaded image im.
drawImageArgs(cv, im) ==
    LET hRatio == Divide(cv.width, im.width)
        vRatio == Divide(cv.height, im.height)
        ratio == MathMin(hRatio, vRatio)
        scaledWidth == Multiply(im.width, ratio)
        scaledHeight == Multiply(im.height, ratio)
    IN  [ratio |-> ratio,
         x |-> Halve(Subtract(cv.width, scaledWidth)),
         y |-> Halve(Subtract(cv.height, scaledHeight)),
         width |-> scaledWidth,
         height |-> scaledHeight]

\* The widths and heights of the images the user uploads.
SourceSides == {1, 98, 550, 800, 1080, 1920}

\* The source sizes the canvas with MAX_DIMENSION only, which every enumerated
\* ratio divides evenly; the sizing rule by itself is run with every largest
\* dimension from MAX_DIMENSION - DimensionRange to MAX_DIMENSION, where
\* Math.round has to round.
Dimensions == (MAX_DIMENSION - DimensionRange)..MAX_DIMENSION

\* Step 1 of handleGenerateClick: the canvas is created and sized.
CreateCanvas ==
    /\ canvas = Null
    /\ canvas' = Some(canvasSize(Target(aspectRatio)[1], Target(aspectRatio)[2],
                                 maxDimension))
    /\ UNCHANGED <<maxDimension, img, drawn>>

\* Steps 2 to 4: the image has loaded with natural size w x h and is drawn.
DrawImage(w, h) ==
    /\ canvas # Null
    /\ img = Null
    /\ img' = Some([width |-> w, height |-> h])
    /\ drawn' = Some(drawImageArgs(canvas[1], [width |-> w, height |-> h]))
    /\ UNCHANGED <<maxDimension, canvas>>

InitGeom ==
    /\ maxDimension = MAX_DIMENSION
    /\ canvas = Null
    /\ img = Null
    /\ drawn = Null

\* ---------------------------------------------------------- specifications

Init == InitAuth /\ InitNav /\ InitApp /\ InitGeom

\* The auth service under arbitrary calls of its API.
NextAuth ==
    \/ Initialize /\ UNCHANGED outsideAuth
    \/ GetAccessToken /\ UNCHANGED outsideAuth
    \/ \E c \in 1..Len(calls), e \in ExpiresInValues :
          ConsentGranted(c, e) /\ UNCHANGED outsideAuth
    \/ \E c \in 1..Len(calls), code \in ErrorCodes :
          ConsentRefused(c, code) /\ UNCHANGED outsideAuth
    \/ SignOut /\ UNCHANGED outsideAuth
    \/ Tick /\ UNCHANGED outsideAuth
    \/ GoogleLoads /\ UNCHANGED outsideAuth

SpecAuth == Init /\ [][NextAuth]_vars

\* The Drive browser under arbitrary user actions and arbitrary outcomes of the
\* promises it awaits, in a configured deployment.
InitBrowser == Init /\ CLIENT_ID # "" /\ googleLoaded

NextNav ==
    \/ OpenBrowser /\ UNCHANGED outsideNav
    \/ CloseBrowser /\ UNCHANGED outsideNav
    \/ RetryAuthentication /\ UNCHANGED outsideNav
    \/ AuthResolved /\ UNCHANGED outsideNav
    \/ \E m \in AuthErrors : AuthRejected(m) /\ UNCHANGED outsideNav
    \/ \E f \in FolderIds, by \in Callers : ListResolved(f, by) /\ UNCHANGED outsideNav
    \/ \E f \in FolderIds, by \in Callers, m \in ListErrors :
          ListRejected(f, by, m) /\ UNCHANGED outsideNav
    \/ \E i \in 1..Len(files) : ClickFile(i) /\ UNCHANGED outsideNav
    \/ \E index \in 0..(Len(breadcrumb) - 1) : ClickBreadcrumb(index) /\ UNCHANGED outsideNav

SpecNav == InitBrowser /\ [][NextNav]_vars

\* The handlers of the Drive browser called on any displayed entry, every
\* authentication and listing succeeding.
NextSelect ==
    \/ OpenBrowser /\ UNCHANGED outsideNav
    \/ CloseBrowser /\ UNCHANGED outsideNav
    \/ AuthResolved /\ UNCHANGED outsideNav
    \/ \E f \in FolderIds, by \in Callers : ListResolved(f, by) /\ UNCHANGED outsideNav
    \/ \E i \in 1..Len(files) : SelectEntry(i) /\ UNCHANGED <<authVars, retry, appVars, geomVars>>

SpecSelect == InitBrowser /\ [][NextSelect]_vars

\* The Drive browser as in SpecNav, with the history of the error panel kept in
\* retry: a rejected listing of the current, non-root folder, then the Retry
\* Authentication button pressed on it, then promises that only resolve. Any
\* other user action, and any other rejection, ends that history.
NextRetry ==
    \/ OpenBrowser /\ retry' = "none" /\ UNCHANGED outsideRetry
    \/ CloseBrowser /\ retry' = "none" /\ UNCHANGED outsideRetry
    \/ /\ RetryAuthentication
       /\ retry' = IF retry = "failed" THEN "retried" ELSE "none"
       /\ UNCHANGED outsideRetry
    \/ AuthResolved /\ UNCHANGED retry /\ UNCHANGED outsideRetry
    \/ \E m \in AuthErrors : AuthRejected(m) /\ retry' = "none" /\ UNCHANGED outsideRetry
    \/ \E f \in FolderIds, by \in Callers :
          ListResolved(f, by) /\ UNCHANGED retry /\ UNCHANGED outsideRetry
    \/ \E f \in FolderIds, by \in Callers, m \in ListErrors :
          /\ ListRejected(f, by, m)
          /\ retry' = IF f # "root" /\ f = currentFolderId THEN "failed" ELSE "none"
          /\ UNCHANGED outsideRetry
    \/ \E i \in 1..Len(files) : ClickFile(i) /\ retry' = "none" /\ UNCHANGED outsideRetry
    \/ \E index \in 0..(Len(breadcrumb) - 1) :
          ClickBreadcrumb(index) /\ retry' = "none" /\ UNCHANGED outsideRetry

SpecRetry == InitBrowser /\ [][NextRetry]_vars

\* The App under arbitrary user actions and arbitrary outcomes of the promises
\* it awaits, in a configured deployment.
NextApp ==
    \/ handleReset /\ UNCHANGED outsideApp
    \/ \E u \in UserFiles : handleFileChange(u) /\ UNCHANGED outsideApp
    \/ \E u \in UserFiles : FileRead(u) /\ UNCHANGED outsideApp
    \/ \E u \in UserFiles : DescribeResolved(u) /\ UNCHANGED outsideApp
    \/ \E u \in UserFiles : DescribeRejected(u) /\ UNCHANGED outsideApp
    \/ \E t \in TypedPrompts : EditPrompt(t) /\ UNCHANGED outsideApp
    \/ \E k \in 1..Len(ASPECT_RATIOS) :
          SelectAspectRatio(ASPECT_RATIOS[k]) /\ UNCHANGED outsideApp
    \/ \E c \in BOOLEAN : ClickExpand(c) /\ UNCHANGED outsideApp
    \/ \E w \in AiFlows : ImageLoaded(w) /\ UNCHANGED outsideApp
    \/ \E w \in AiFlows : ExpandResolved(w) /\ UNCHANGED outsideApp
    \/ \E w \in AiFlows : GenerateFailed(w) /\ UNCHANGED outsideApp

SpecApp == InitBrowser /\ [][NextApp]_vars

\* handleGenerateClick has been called with some aspect ratio selected.
InitGenerate ==
    /\ InitAuth /\ CLIENT_ID # "" /\ googleLoaded
    /\ InitNav
    /\ originalFile = Null
    /\ originalImagePreview = Null
    /\ generatedPrompt = ""
    /\ \E k \in 1..Len(ASPECT_RATIOS) : aspectRatio = ASPECT_RATIOS[k]
    /\ generatedImage = Null
    /\ appState = "generating"
    /\ errorMessage = ""
    /\ awaited = EmptyBag
    /\ canvas = Null
    /\ img = Null
    /\ drawn = Null

\* The sizing rule for every aspect ratio and every largest dimension.
InitSizing == InitGenerate /\ maxDimension \in Dimensions

NextSizing == CreateCanvas /\ UNCHANGED <<authVars, navVars, clicked, retry, appVars>>

SpecSizing == InitSizing /\ [][NextSizing]_vars

\* The compositing of handleGenerateClick for every aspect ratio and image size.
InitCompose == InitGenerate /\ maxDimension = MAX_DIMENSION

NextCompose ==
    \/ CreateCanvas /\ UNCHANGED <<authVars, navVars, clicked, retry, appVars>>
    \/ \E w \in SourceSides, h \in SourceSides :
          DrawImage(w, h) /\ UNCHANGED <<authVars, navVars, clicked, retry, appVars>>

SpecCompose == InitCompose /\ [][NextCompose]_vars

\* ------------------------------------------------ claims on the auth service

\* The consent requests that have not been answered yet.
OutstandingRequests == {c \in 1..Len(calls) : calls[c].req # 0}

\* The step is a getAccessToken() call; its promise is the last of calls'.
IsCallStep == Len(calls') = Len(calls) + 1
TheCall == calls'[Len(calls')]

\* C2 (as stated): at most one token refresh (consent request) is in progress
\* at a time; a getAccessToken() made while another one waits issues no second
\* request to the token client.
C2_SingleRefreshInFlight == Cardinality(OutstandingRequests) <= 1

\* C5: while the token of issuance i (issued at time at with expires_in seconds)
\* is the cached one, isAuthenticated() is true exactly at the instants
\* now < at + expires_in * 1000 ms.
C5_ValidUntilExpiry ==
    \A i \in 1..Len(issueLog) :
        accessToken = Some(issueLog[i].access_token)
            => (isAuthenticated <=> now < issueLog[i].at + issueLog[i].expires_in * 1000)

\* C5 witness: a token obtained by a getAccessToken() call is still cached at
\* its expiry instant, where isAuthenticated() has turned false.
C5_Witness ==
    \E i \in 1..Len(issueLog), c \in 1..Len(calls) :
        /\ calls[c].st = "resolved"
        /\ calls[c].token = accessToken
        /\ accessToken = Some(issueLog[i].access_token)
        /\ now = issueLog[i].at + issueLog[i].expires_in * 1000
        /\ ~isAuthenticated

\* The cache is empty, or holds the token and the expiry of one issuance.
CacheFromOneIssuance ==
    \/ accessToken = Null /\ tokenExpiry = Null
    \/ \E i \in 1..Len(issueLog) :
          /\ accessToken = Some(issueLog[i].access_token)
          /\ tokenExpiry = Some(issueLog[i].at + issueLog[i].expires_in * 1000)

\* C6: accessToken and tokenExpiry change only together: a successful token
\* response sets both from that response, signOut() clears both, every other
\* operation leaves both as they are; so they are both absent or both of one
\* issuance.
C6_CacheFrame ==
    /\ []CacheFromOneIssuance
    /\ [][ /\ \A c \in 1..Len(calls), e \in ExpiresInValues :
                ConsentGranted(c, e)
                    => /\ accessToken' = Some(Len(issueLog) + 1)
                       /\ tokenExpiry' = Some(now + e * 1000)
           /\ SignOut => (accessToken' = Null /\ tokenExpiry' = Null)
           /\ ( \/ Initialize
                \/ GetAccessToken
                \/ \E c \in 1..Len(calls), code \in ErrorCodes : ConsentRefused(c, code)
                \/ Tick
                \/ GoogleLoads )
                => UNCHANGED <<accessToken, tokenExpiry>> ]_vars

\* C6 witness: a second successful response has replaced the first token and
\* its expiry.
C6_Witness ==
    /\ Len(issueLog) = 2
    /\ accessToken = Some(issueLog[2].access_token)
    /\ tokenExpiry = Some(issueLog[2].at + issueLog[2].expires_in * 1000)
    /\ tokenExpiry # Some(issueLog[1].at + issueLog[1].expires_in * 1000)

\* A promise resolved by a consent response holds a token issued after the call.
ResolvedWithNewToken ==
    \A c \in 1..Len(calls) :
        (calls[c].st = "resolved" /\ ~calls[c].cached) => calls[c].token[1] > calls[c].seen

\* The token is cached and has not expired (the claim's condition).
TokenCachedAndFresh == accessToken # Null /\ tokenExpiry # Null /\ now < tokenExpiry[1]

\* C7 (as stated): getAccessToken() returns the cached token, with no consent
\* request, exactly when a token is cached and now < tokenExpiry; in every other
\* case it issues a consent request, and resolves with the newly issued token.
C7_CachedOrConsent ==
    /\ []ResolvedWithNewToken
    /\ [][ IsCallStep =>
             IF TokenCachedAndFresh
               THEN TheCall.st = "resolved" /\ TheCall.token = accessToken /\ TheCall.req = 0
               ELSE TheCall.st = "waiting" /\ TheCall.req # 0 ]_vars

\* C7 (amended): as stated, except that a call made with no token client whose
\* implicit initialize() fails is rejected and issues no consent request.
C7_CachedOrConsentUnlessInitFails ==
    /\ []ResolvedWithNewToken
    /\ [][ IsCallStep =>
             IF TokenCachedAndFresh
               THEN TheCall.st = "resolved" /\ TheCall.token = accessToken /\ TheCall.req = 0
               ELSE IF tokenClient = 0 /\ (CLIENT_ID = "" \/ ~googleLoaded)
               THEN TheCall.st = "rejected" /\ TheCall.req = 0
               ELSE TheCall.st = "waiting" /\ TheCall.req # 0 ]_vars

\* C7 witness: a call made when the cached token had expired was resolved by the
\* consent flow with the second token.
C7_Witness ==
    \E c \in 1..Len(calls) :
        /\ calls[c].st = "resolved"
        /\ ~calls[c].cached
        /\ calls[c].seen = 1
        /\ calls[c].token = Some(2)

\* C8 (as stated, for a session whose token client exists): signOut() leaves no
\* token and no expiry, and the first getAccessToken() after it issues a consent
\* request.
C8_FirstCallAfterSignOutAsksConsent ==
    [][ /\ SignOut => (accessToken' = Null /\ tokenExpiry' = Null)
        /\ (IsCallStep /\ signedOut /\ tokenClient # 0)
              => (TheCall.st = "waiting" /\ TheCall.req # 0) ]_vars

\* C9 (as stated): when the consent request of a call is answered with an error
\* response, that call is rejected with the provider's error code and the cache
\* is left as it was.
C9_RefusedCallRejected ==
    [][ \A c \in 1..Len(calls), code \in ErrorCodes :
           ConsentRefused(c, code)
              => /\ calls'[c].st = "rejected"
                 /\ calls'[c].error = Some(code)
                 /\ UNCHANGED <<accessToken, tokenExpiry>> ]_vars

\* No consent request is outstanding while there is no token client.
NoRequestWhileUninitialized == OutstandingRequests # {} => tokenClient # 0

\* C10 (as stated): a getAccessToken() made before initialize() has completed
\* fails, and issues no consent request.
C10_CallBeforeInitializeFails ==
    [][ (IsCallStep /\ tokenClient = 0)
           => (TheCall.st = "rejected" /\ TheCall.req = 0) ]_vars

\* C10 (amended): a getAccessToken() made before initialize() has completed
\* runs initialize() itself: it fails, with the error of initialize(), only when
\* that fails; otherwise the token client exists from then on and the consent
\* request is made on it.  No consent request is ever outstanding without a
\* token client.
C10_CallBeforeInitializeInitializes ==
    /\ []NoRequestWhileUninitialized
    /\ [][ (IsCallStep /\ tokenClient = 0) =>
             IF CLIENT_ID = "" \/ ~googleLoaded
               THEN /\ TheCall.st = "rejected"
                    /\ TheCall.error = IF CLIENT_ID = "" THEN Some(ErrNoClientId)
                                                         ELSE Some(ErrNotLoaded)
                    /\ TheCall.req = 0
                    /\ tokenClient' = 0
               ELSE /\ TheCall.st = "waiting"
                    /\ tokenClient' # 0
                    /\ TheCall.req = tokenClient' ]_vars

\* C10 witness: a call made with no token client has been resolved with a token.
C10_Witness ==
    \E c \in 1..Len(calls) : calls[c].uninit /\ calls[c].st = "resolved"

C19_SignOutNotUndone == signedOut => (accessToken = Null /\ ~isAuthenticated)

\* ------------------------------------------------ claims on the Drive browser

\* The file list is on screen: the browser is open and neither the spinner nor
\* the error panel replaces the list.
ListDisplayed == isOpen /\ ~loading /\ error = Null

\* C1 (as stated): whenever nothing is in flight, the displayed file list that a
\* navigation action (handleFolderClick, handleBreadcrumbClick) loaded is the
\* listing of currentFolderId; the result of an earlier navigation never ends up
\* displayed after a later one was made.
C1_DisplayedListIsCurrentFolder ==
    (pending = EmptyBag /\ ListDisplayed /\ filesFrom = "click")
        => files = Listing(currentFolderId)

\* The step is a navigation action: a click on a folder or on a breadcrumb.
IsNavigationStep ==
    \/ \E i \in 1..Len(files) : isFolder(files[i]) /\ ClickFile(i)
    \/ \E index \in 0..(Len(breadcrumb) - 1) : ClickBreadcrumb(index)

\* C3 (as stated): a navigation action leaves breadcrumb and currentFolderId at
\* their pre-action values while its listing is in flight; they change only once
\* the listing has succeeded.
C3_NavigationAppliedAfterListing ==
    [][ IsNavigationStep => UNCHANGED <<breadcrumb, currentFolderId>> ]_vars

\* C4: the breadcrumb is never empty, starts with the root sentinel and ends
\* with the item of currentFolderId.
C4_BreadcrumbInvariant ==
    /\ Len(breadcrumb) >= 1
    /\ breadcrumb[1] = RootCrumb
    /\ breadcrumb[Len(breadcrumb)].id = currentFolderId

\* C4 witness: the user has picked an image, entered Photos and 2024 (whose
\* listing is shown) and jumped back to Photos.
C4_Witness ==
    /\ selected = Some(Image1)
    /\ files = Listing("fB")
    /\ breadcrumb = <<RootCrumb, [id |-> "fA", name |-> "Photos"]>>
    /\ currentFolderId = "fA"

\* C17: a click on breadcrumb item index (0 <= index < length) leaves exactly
\* the first index + 1 items, unchanged and in order, makes the item at index
\* the current folder and requests its listing; the last index leaves
\* breadcrumb and currentFolderId as they are, index 0 returns to root.
C17_JumpToBreadcrumb ==
    [][ \A index \in 0..(Len(breadcrumb) - 1) :
          ClickBreadcrumb(index) =>
            /\ Len(breadcrumb') = index + 1
            /\ \A k \in 1..(index + 1) : breadcrumb'[k] = breadcrumb[k]
            /\ currentFolderId' = breadcrumb[index + 1].id
            /\ pending' = pending (+) One(ListFlow(breadcrumb[index + 1].id, "click"))
            /\ loading'
            /\ index = Len(breadcrumb) - 1 => UNCHANGED <<breadcrumb, currentFolderId>>
            /\ index = 0 => (breadcrumb' = <<RootCrumb>> /\ currentFolderId' = "root") ]_vars

\* C17 witness: from Photos / 2024, whose listing is shown, the user has jumped
\* to the first breadcrumb item; the listing of root is requested.
C17_Witness ==
    /\ files = Listing("fB")
    /\ filesFrom = "click"
    /\ breadcrumb = <<RootCrumb>>
    /\ currentFolderId = "root"
    /\ BagIn(ListFlow("root", "click"), pending)

\* C16: handleFileClick on a folder does what handleFolderClick does; on an
\* image it hands the entry to onSelectFile and changes neither breadcrumb nor
\* currentFolderId nor requests a listing; on any other entry it changes nothing
\* and does not call onSelectFile.
C16_SelectEntryByKind ==
    [][ \A i \in 1..Len(files) :
          SelectEntry(i) =>
            LET entry == files[i] IN
            IF entry.mimeType = <<"application", "vnd.google-apps.folder">>
              THEN /\ currentFolderId' = entry.id
                   /\ breadcrumb' = breadcrumb \o <<[id |-> entry.id, name |-> entry.name]>>
                   /\ pending' = pending (+) One(ListFlow(entry.id, "click"))
                   /\ loading' /\ error' = Null
                   /\ UNCHANGED <<files, selected, isOpen, uiAuthenticated>>
            ELSE IF entry.mimeType[1] = "image"
              THEN /\ selected' = Some(entry)
                   /\ UNCHANGED <<breadcrumb, currentFolderId, pending, files, loading,
                                  error, isOpen, uiAuthenticated>>
              ELSE UNCHANGED <<breadcrumb, currentFolderId, pending, files, loading,
                               error, isOpen, uiAuthenticated, selected>> ]_vars

\* C16 witness: at root the user picked the image and then handleFileClick was
\* called with the PDF: the selection is still the image and nothing moved.
C16_Witness ==
    /\ clicked = Some(Doc1)
    /\ selected = Some(Image1)
    /\ files = Listing("root")
    /\ currentFolderId = "root"
    /\ breadcrumb = <<RootCrumb>>
    /\ pending = EmptyBag

\* C21 (as stated): after the listing of the current, non-root folder failed and
\* Retry Authentication was pressed, once every request has settled successfully
\* the displayed file list is the listing of currentFolderId and the last
\* breadcrumb item is currentFolderId: root's files are not shown under a deeper
\* breadcrumb.
C21_RetryShowsCurrentFolder ==
    (retry = "retried" /\ pending = EmptyBag /\ ListDisplayed)
        => /\ files = Listing(currentFolderId)
           /\ breadcrumb[Len(breadcrumb)].id = currentFolderId

\* C18 (as stated): when the browser is opened again after it was closed,
\* currentFolderId is 'root', the breadcrumb is the single root item and the
\* listing requested on reopening is that of root.
C18_NavigationResetOnReopen ==
    [][ OpenBrowser =>
          /\ currentFolderId' = "root"
          /\ breadcrumb' = <<RootCrumb>>
          /\ \A f \in FolderIds \ {"root"} :
                CopiesIn(ListFlow(f, "effect"), pending')
                    = CopiesIn(ListFlow(f, "effect"), pending) ]_vars

\* The listFiles() requests the browser is awaiting.
ListingsInFlight ==
    LET listings == {w \in BagToSet(pending) : w.kind = "list"}
    IN  BagCardinality([w \in listings |-> pending[w]])

\* C12 (as stated): at every instant at most one Drive listing request and at
\* most one generative-AI call (describeImage or expandImage) is in flight.
C12_OneRequestInFlight ==
    /\ ListingsInFlight <= 1
    /\ AiCallsInFlight <= 1

\* --------------------------------------------------- claims on the App workflow

\* C13 (as stated): once appState is 'error' it stays 'error' until handleReset;
\* no completion of a describe or expand call moves it out of 'error'.
C13_ErrorUntilReset ==
    [][ (appState = "error" /\ appState' # "error") => handleReset ]_vars

\* C20 (as stated): in 'ready', 'generating' and 'done' an original image is
\* present and generatedPrompt is the description of that image (or what the
\* user typed over it); in 'idle' there is no original file, no prompt and no
\* generated image.
C20_WorkflowStateInvariant ==
    /\ appState \in {"ready", "generating", "done"}
          => /\ originalFile # Null
             /\ originalImagePreview # Null
             /\ generatedPrompt \in TypedPrompts \cup {DescriptionOf(originalFile[1])}
    /\ appState = "idle"
          => /\ originalFile = Null
             /\ generatedPrompt = ""
             /\ generatedImage = Null

\* ------------------------------------------------- claims on the compositing

\* The enumerated ratios W : H, in the order of ASPECT_RATIOS.
EnumeratedRatios == << <<1, 1>>, <<16, 9>>, <<9, 16>>, <<4, 3>>, <<3, 4>> >>

\* r is an integer nearest to n / d.
NearestTo(r, n, d) == 2 * d * r - d <= 2 * n /\ 2 * n <= 2 * d * r + d

\* C14: for the ratio W : H and the largest dimension M, the longer side of the
\* canvas is M exactly and the shorter one is round(M * min(W,H) / max(W,H));
\* the width is the side set to M when W >= H, the height otherwise.
C14_CanvasSizing ==
    canvas # Null =>
      \A k \in 1..Len(ASPECT_RATIOS) :
        aspectRatio = ASPECT_RATIOS[k] =>
          LET W == EnumeratedRatios[k][1]
              H == EnumeratedRatios[k][2]
              M == maxDimension
              cv == canvas[1]
          IN  /\ W >= H => (cv.width = M /\ NearestTo(cv.height, M * H, W))
              /\ W < H => (cv.height = M /\ NearestTo(cv.width, M * W, H))
              /\ cv.width <= M /\ cv.height <= M
              /\ cv.width > 0 /\ cv.height > 0

\* C14 witness: Landscape (16:9) with MAX_DIMENSION gave a canvas of 1024 x 576.
C14_Witness ==
    /\ aspectRatio.label = "Landscape (16:9)"
    /\ maxDimension = MAX_DIMENSION
    /\ canvas = Some([width |-> 1024, height |-> 576])

\* Exact arithmetic on doubles with a sign: -s, s + t, s <= t.
Positive(b) == Signed(FALSE, b)
Minus(s) == Signed(~s.neg, s.mag)
Plus(s, t) ==
    IF s.neg = t.neg THEN Signed(s.neg, Add(s.mag, t.mag))
    ELSE IF Less(s.mag, t.mag) THEN Signed(t.neg, Sub(t.mag, s.mag))
    ELSE Signed(s.neg, Sub(s.mag, t.mag))
AtMost(s, t) == ~Plus(t, Minus(s)).neg

\* 2^-40, and |s - t| <= 2^-40.
Tolerance == Positive(PowerOfTwo(FracLimbs * LimbBits - 40))
Near(s, t) ==
    /\ AtMost(s, Plus(t, Tolerance))
    /\ AtMost(t, Plus(s, Tolerance))

\* The example of C15: 16:9, 1024, source 800 x 800 gives canvas 1024 x 576,
\* scaled 576 x 576, drawX 224, drawY 0.
ExampleOfFit ==
    ( /\ aspectRatio.label = "Landscape (16:9)"
      /\ maxDimension = 1024
      /\ img = Some([width |-> 800, height |-> 800]) )
    => /\ canvas = Some([width |-> 1024, height |-> 576])
       /\ drawn[1].width = FromInt(576)
       /\ drawn[1].height = FromInt(576)
       /\ drawn[1].x = Positive(FromInt(224))
       /\ drawn[1].y = Positive(FromInt(0))

\* The ratio is one of the two quotients and not above the other.
ScaleIsMin ==
    LET hRatio == Divide(canvas[1].width, img[1].width)
        vRatio == Divide(canvas[1].height, img[1].height)
    IN  /\ drawn[1].ratio \in {hRatio, vRatio}
        /\ ~Less(hRatio, drawn[1].ratio)
        /\ ~Less(vRatio, drawn[1].ratio)

\* C15 (as stated): the scale is min(canvasW/srcW, canvasH/srcH); the box of the
\* scaled image lies inside the canvas, touches it on at least one axis and is
\* centred, with drawX = (canvasW - scaledW)/2 >= 0 and
\* drawY = (canvasH - scaledH)/2 >= 0; and the example.
C15_ContainFitExact ==
    drawn # Null =>
      LET d == drawn[1]
          cw == Positive(FromInt(canvas[1].width))
          ch == Positive(FromInt(canvas[1].height))
          w == Positive(d.width)
          h == Positive(d.height)
      IN  /\ ScaleIsMin
          /\ ~d.x.neg /\ ~d.y.neg
          /\ AtMost(Plus(d.x, w), cw) /\ AtMost(Plus(d.y, h), ch)
          /\ w = cw \/ h = ch
          /\ Near(Plus(Plus(d.x, d.x), w), cw)
          /\ Near(Plus(Plus(d.y, d.y), h), ch)
          /\ ExampleOfFit

\* C15 (amended): as stated, up to the rounding of the double arithmetic: the
\* box lies inside the canvas, touches it on at least one axis and is centred
\* to within 2^-40 pixel, drawX and drawY being no less than -2^-40; the
\* example holds exactly.
C15_ContainFitWithinRounding ==
    drawn # Null =>
      LET d == drawn[1]
          cw == Positive(FromInt(canvas[1].width))
          ch == Positive(FromInt(canvas[1].height))
          w == Positive(d.width)
          h == Positive(d.height)
      IN  /\ ScaleIsMin
          /\ AtMost(Minus(Tolerance), d.x) /\ AtMost(Minus(Tolerance), d.y)
          /\ AtMost(Plus(d.x, w), Plus(cw, Tolerance))
          /\ AtMost(Plus(d.y, h), Plus(ch, Tolerance))
          /\ Near(w, cw) \/ Near(h, ch)
          /\ Near(Plus(Plus(d.x, d.x), w), cw)
          /\ Near(Plus(Plus(d.y, d.y), h), ch)
          /\ ExampleOfFit

\* C15 witness: Classic Portrait (3:4) with MAX_DIMENSION and a source of
\* 550 x 550: the scaled width is the double next above 768 and drawX is
\* negative.
C15_Witness ==
    /\ aspectRatio.label = "Classic Portrait (3:4)"
    /\ maxDimension = MAX_DIMENSION
    /\ img = Some([width |-> 550, height |-> 550])
    /\ drawn # Null
    /\ drawn[1].x.neg
    /\ Less(FromInt(768), drawn[1].width)

====
